---------------------------- MODULE Spec2Model ----------------------------
(***************************************************************************)
(* Base64 encoder of src/src/encode.rs as a state machine.                 *)
(*                                                                         *)
(* A client holds one input byte sequence.  It calls encode on it, and     *)
(* then any of the other public functions (encode_slice, encode_to_slice,  *)
(* add_padding, encode_size) on the same input with buffers of its own.    *)
(* The functions keep no state between calls, so the order of the calls    *)
(* does not change what any of them does; calling encode first only makes  *)
(* its text available to compare the other entry points against.  A call   *)
(* that panics unwinds to the client, which goes on with its next call.    *)
(*                                                                         *)
(* Byte buffers are sequences of 0..255 (1-indexed here, 0-indexed in the  *)
(* source).  A Rust sub-slice is an (offset, length) window on the         *)
(* underlying buffer; an out-of-range slice or index is a panic, and the   *)
(* buffer keeps whatever was written before it.                            *)
(***************************************************************************)
EXTENDS Integers, Sequences, FiniteSets

\* ---- bounds of the model ----
MaxLen == 4            \* longest input, in bytes
MaxShort == 2          \* caller buffers down to this much below encode_size
MaxExtra == 1          \* caller buffers up to this much above encode_size
UsizeBits == 16        \* width of usize (Rust's smallest supported pointer width)

ByteVals == {0, 77, 97, 110, 255}   \* 0x00, 'M', 'a', 'n', 0xFF
FillPattern == << 65, 61, 0 >>      \* what a caller's buffer holds beforehand: 'A', '=', 0x00

USIZE_MAX == 2^UsizeBits - 1
ISIZE_MAX == 2^(UsizeBits - 1) - 1  \* the longest slice Rust allows

\* ---- constants of the program ----
BASE64_TABLE ==
  << 65, 66, 67, 68, 69, 70, 71, 72, 73, 74, 75, 76, 77, 78, 79, 80,
     81, 82, 83, 84, 85, 86, 87, 88, 89, 90, 97, 98, 99,100,101,102,
    103,104,105,106,107,108,109,110,111,112,113,114,115,116,117,118,
    119,120,121,122, 48, 49, 50, 51, 52, 53, 54, 55, 56, 57, 43, 47 >>
PAD_BYTE == 61
LOW_SIX_BITS == 63
LOW_SIX_BITS_U8 == 63

\* ---- machine arithmetic ----
RECURSIVE BitAnd(_, _)
BitAnd(a, b) ==
  IF a = 0 \/ b = 0 THEN 0
  ELSE (a % 2) * (b % 2) + 2 * BitAnd(a \div 2, b \div 2)

RECURSIVE BitOr(_, _)
BitOr(a, b) ==
  IF a = 0 THEN b
  ELSE IF b = 0 THEN a
  ELSE (IF a % 2 = 1 \/ b % 2 = 1 THEN 1 ELSE 0) + 2 * BitOr(a \div 2, b \div 2)

Shr(a, k) == a \div (2^k)
\* u8 << k: the bits shifted past bit 7 are dropped
ShlU8(a, k) == (a * 2^k) % 256

\* BASE64_TABLE[i] of the source (0-indexed)
Table(i) == BASE64_TABLE[i + 1]

\* ---- encode_size ----
\* mutant: the partial group is counted only when two bytes are left over
encode_size_exact_rem1(input_len) ==
  LET rem == input_len % 3
      input_chunks_complete == input_len \div 3
      complete_output_chunks == input_chunks_complete * 4
  IN  IF rem > 1 THEN complete_output_chunks + 4 ELSE complete_output_chunks

encode_size_exact(input_len) ==
  LET rem == input_len % 3
      input_chunks_complete == input_len \div 3
      complete_output_chunks == input_chunks_complete * 4
  IN  IF rem > 0 THEN complete_output_chunks + 4 ELSE complete_output_chunks

\* mutant: multiplying before dividing (input_len * 4 / 3 rounded up), which
\* passes USIZE_MAX for a quarter of the lengths the code handles
encode_size_mul_first(input_len) ==
  LET v == encode_size_exact(input_len)
  IN  IF input_len * 4 <= USIZE_MAX
        THEN {[panic |-> FALSE, val |-> v]}
        ELSE {[panic |-> TRUE, val |-> 0],
              [panic |-> FALSE, val |-> (((input_len * 4) % (USIZE_MAX + 1)) + 2) \div 3]}

\* The usize arithmetic of encode_size: a build with overflow checks panics
\* when a product or sum passes USIZE_MAX, a build without them wraps.
encode_size(input_len) ==
  LET v == encode_size_exact(input_len)
  IN  IF v <= USIZE_MAX
        THEN {[panic |-> FALSE, val |-> v]}
        ELSE {[panic |-> TRUE, val |-> 0],
              [panic |-> FALSE, val |-> v % (USIZE_MAX + 1)]}

\* ---- read_u32 ----
read_u32(s) == s[1] * 65536 + s[2] * 256 + s[3]

\* ---- the symbols of encode_to_slice ----
\* mutant: the first symbol taken 16 bits up instead of 18
chunk_symbols_shift16(input_chunk) ==
  << Table(BitAnd(Shr(input_chunk, 16), LOW_SIX_BITS)),
     Table(BitAnd(Shr(input_chunk, 12), LOW_SIX_BITS)),
     Table(BitAnd(Shr(input_chunk, 6), LOW_SIX_BITS)),
     Table(BitAnd(Shr(input_chunk, 0), LOW_SIX_BITS)) >>

chunk_symbols(input_chunk) ==
  << Table(BitAnd(Shr(input_chunk, 18), LOW_SIX_BITS)),
     Table(BitAnd(Shr(input_chunk, 12), LOW_SIX_BITS)),
     Table(BitAnd(Shr(input_chunk, 6), LOW_SIX_BITS)),
     Table(BitAnd(Shr(input_chunk, 0), LOW_SIX_BITS)) >>

\* mutant: the third symbol without its shift
tail2_symbols_noshift(b0, b1) ==
  << Table(BitAnd(Shr(b0, 2), LOW_SIX_BITS_U8)),
     Table(BitAnd(BitOr(ShlU8(b0, 4), Shr(b1, 4)), LOW_SIX_BITS_U8)),
     Table(BitAnd(b1, LOW_SIX_BITS_U8)) >>

\* mutant: the converter writes the pad byte of a two-byte tail itself
tail2_symbols_padded(b0, b1) ==
  << Table(BitAnd(Shr(b0, 2), LOW_SIX_BITS_U8)),
     Table(BitAnd(BitOr(ShlU8(b0, 4), Shr(b1, 4)), LOW_SIX_BITS_U8)),
     Table(BitAnd(ShlU8(b1, 2), LOW_SIX_BITS_U8)),
     PAD_BYTE >>

tail2_symbols(b0, b1) ==
  << Table(BitAnd(Shr(b0, 2), LOW_SIX_BITS_U8)),
     Table(BitAnd(BitOr(ShlU8(b0, 4), Shr(b1, 4)), LOW_SIX_BITS_U8)),
     Table(BitAnd(ShlU8(b1, 2), LOW_SIX_BITS_U8)) >>

\* mutant: a one-byte tail written as three symbols
tail1_symbols_three(b0) ==
  << Table(BitAnd(Shr(b0, 2), LOW_SIX_BITS_U8)),
     Table(BitAnd(ShlU8(b0, 4), LOW_SIX_BITS_U8)),
     Table(0) >>

tail1_symbols(b0) ==
  << Table(BitAnd(Shr(b0, 2), LOW_SIX_BITS_U8)),
     Table(BitAnd(ShlU8(b0, 4), LOW_SIX_BITS_U8)) >>

\* mutant: as many pad bytes as bytes left over
add_padding_len_rem(input_len) == input_len % 3

\* ---- add_padding ----
add_padding_len(input_len) ==
  LET rem == input_len % 3
  IN  (3 - rem) % 3

\* ---- the window encode_slice takes of the caller's buffer ----
\* mutant: the window starts one byte in, &mut output[1..=encode_size]
b64_output_from1(output, size) == [lo |-> 1, hi |-> size + 1]

\* mutant: the whole buffer is handed on, unchecked
b64_output_whole(output, size) == [lo |-> 0, hi |-> Len(output)]

\* &mut output[..encode_size] (line 27)
b64_output(output, size) == [lo |-> 0, hi |-> size]

\* A range lo..hi of a slice of length len is in bounds
SliceOk(lo, hi, len) == lo <= hi /\ hi <= len

\* debug_assert_eq!: passes when equal; when not, a debug build panics and a
\* release build does not evaluate it
DebugAssert(ok) == IF ok THEN {"pass"} ELSE {"panic", "skipped"}

\* String::from_utf8 on bytes below 0x80 is the identity; the encoder has no
\* other bytes to give it, and any other byte is taken as not valid UTF-8
ValidUtf8(b) == \A i \in 1..Len(b) : b[i] < 128

\* ---- buffers ----
\* vals stored at 0-indexed offset off of b
Store(b, off, vals) ==
  [i \in 1..Len(b) |->
     IF i > off /\ i <= off + Len(vals) THEN vals[i - off] ELSE b[i]]

\* the write counts after that store
Count(w, off, n) ==
  [i \in 1..Len(w) |-> IF i > off /\ i <= off + n THEN w[i] + 1 ELSE w[i]]

Fill(n, v) == [i \in 1..n |-> v]

RECURSIVE SeqsUpTo(_, _)
SeqsUpTo(S, n) ==
  IF n = 0 THEN {<< >>}
  ELSE LET shorter == SeqsUpTo(S, n - 1)
       IN  shorter \cup {Append(s, x) : s \in {t \in shorter : Len(t) = n - 1}, x \in S}

Inputs == SeqsUpTo(ByteVals, MaxLen)

\* the buffers a caller hands in for an input of n bytes
CallerBuffers(n) ==
  LET size == encode_size_exact(n)
      lo == IF size > MaxShort THEN size - MaxShort ELSE 0
  IN  {[i \in 1..cap |-> FillPattern[(i % 3) + 1]] : cap \in lo..(size + MaxExtra)}

NoText == << -1 >>
Panicked == << -2 >>

VARIABLES
  input,          \* the client's input bytes
  text,           \* what encode returned: NoText before the call, Panicked if it panicked
  pc,             \* idle | convert | tail | padding | done | panic
  op,             \* the public function being run
  buf,            \* the output buffer (encode's Vec, or the caller's buffer)
  buf0,           \* buf as it was when the call began
  writes,         \* how many times each index of buf was written
  out_off,        \* the slice `output` of encode_to_slice: offset in buf
  out_len,        \*   and its length
  encoded_size,   \* encode_with_padding's encoded_size
  input_index,    \* encode_to_slice's input_index
  output_index,   \* encode_to_slice's output_index
  b64_bytes,      \* encode_with_padding's b64_bytes
  padding_bytes,  \* encode_with_padding's padding_bytes
  pad_off,        \* the slice given to add_padding: offset in buf
  pad_len,        \*   and its length
  size_arg,       \* the length the client asks encode_size about
  ret             \* the usize returned, -1 when none

vars == << input, text, pc, op, buf, buf0, writes, out_off, out_len,
           encoded_size, input_index, output_index, b64_bytes, padding_bytes,
           pad_off, pad_len, size_arg, ret >>

callvars == << op, buf, buf0, writes, out_off, out_len, encoded_size,
               input_index, output_index, b64_bytes, padding_bytes,
               pad_off, pad_len, size_arg, ret >>

Idle ==
  /\ pc = "idle"
  /\ op = "none"
  /\ buf = << >> /\ buf0 = << >> /\ writes = << >>
  /\ out_off = 0 /\ out_len = 0 /\ encoded_size = 0
  /\ input_index = 0 /\ output_index = 0
  /\ b64_bytes = 0 /\ padding_bytes = 0
  /\ pad_off = 0 /\ pad_len = 0
  /\ ret = -1

Init ==
  /\ input \in Inputs
  /\ size_arg = Len(input)
  /\ text = NoText
  /\ Idle

\* ---- pub fn encode (lines 11-18), up to the call of encode_to_slice ----
Call_encode ==
  /\ pc = "idle"
  /\ text = NoText
  /\ \E r \in encode_size(Len(input)) :
       IF r.panic
         THEN /\ pc' = "panic"
              /\ op' = "encode"
              /\ text' = Panicked
              /\ UNCHANGED << buf, buf0, writes, out_off, out_len, encoded_size >>
         ELSE \* vec![0u8; len], then encode_with_padding's first assertion
              \E a \in DebugAssert(Len(Fill(r.val, 0)) = r.val) :
                /\ pc' = IF a = "panic" THEN "panic" ELSE "convert"
                /\ text' = IF a = "panic" THEN Panicked ELSE text
                /\ op' = "encode"
                /\ buf' = Fill(r.val, 0)
                /\ buf0' = Fill(r.val, 0)
                /\ writes' = Fill(r.val, 0)
                /\ out_off' = 0
                /\ out_len' = r.val
                /\ encoded_size' = r.val
  /\ UNCHANGED << input, input_index, output_index, b64_bytes,
                  padding_bytes, pad_off, pad_len, size_arg, ret >>

\* ---- pub fn encode_slice (lines 23-32), up to the call of encode_to_slice ----
Call_encode_slice(output) ==
  /\ pc = "idle"
  /\ text # NoText
  /\ op' = "encode_slice"
  /\ buf' = output
  /\ buf0' = output
  /\ writes' = Fill(Len(output), 0)
  /\ \E r \in encode_size(Len(input)) :
       LET w == b64_output(output, r.val) IN
       IF r.panic \/ ~SliceOk(w.lo, w.hi, Len(output))
         THEN /\ pc' = "panic"
              /\ UNCHANGED << out_off, out_len, encoded_size >>
         ELSE \E a \in DebugAssert(w.hi - w.lo = r.val) :
                /\ pc' = IF a = "panic" THEN "panic" ELSE "convert"
                /\ out_off' = w.lo
                /\ out_len' = w.hi - w.lo
                /\ encoded_size' = r.val
  /\ UNCHANGED << input, text, input_index, output_index, b64_bytes,
                  padding_bytes, pad_off, pad_len, size_arg, ret >>

\* ---- pub fn encode_to_slice called by the client (lines 70-78) ----
Call_encode_to_slice(output) ==
  /\ pc = "idle"
  /\ text # NoText
  /\ pc' = "convert"
  /\ op' = "encode_to_slice"
  /\ buf' = output
  /\ buf0' = output
  /\ writes' = Fill(Len(output), 0)
  /\ out_off' = 0
  /\ out_len' = Len(output)
  /\ UNCHANGED << input, text, encoded_size, input_index, output_index,
                  b64_bytes, padding_bytes, pad_off, pad_len, size_arg, ret >>

last_index == Len(input) - (Len(input) % 3)

\* a panic inside encode is what the client gets instead of a text
TextAfter(next_pc) == IF op = "encode" /\ next_pc = "panic" THEN Panicked ELSE text

\* ---- one iteration of encode_to_slice's while loop (lines 80-93) ----
encode_to_slice_loop ==
  /\ pc = "convert"
  /\ input_index < last_index
  /\ IF /\ SliceOk(input_index, input_index + 3, Len(input))
        /\ SliceOk(output_index, output_index + 4, out_len)
       THEN LET input_chunk == read_u32(SubSeq(input, input_index + 1, input_index + 3))
            IN  /\ buf' = Store(buf, out_off + output_index, chunk_symbols(input_chunk))
                /\ writes' = Count(writes, out_off + output_index, 4)
                /\ input_index' = input_index + 3
                /\ output_index' = output_index + 4
                /\ pc' = "convert"
       ELSE /\ pc' = "panic"
            /\ UNCHANGED << buf, writes, input_index, output_index >>
  /\ text' = TextAfter(pc')
  /\ UNCHANGED << input, op, buf0, out_off, out_len, encoded_size,
                  b64_bytes, padding_bytes, pad_off, pad_len, size_arg, ret >>

\* ---- the while condition is false (line 80) ----
encode_to_slice_loop_exit ==
  /\ pc = "convert"
  /\ ~(input_index < last_index)
  /\ pc' = "tail"
  /\ UNCHANGED << input, text, callvars >>

\* encode_to_slice returns output_index: to the client, or into
\* encode_with_padding (lines 41-42), which slices output[b64_bytes..]
ReturnFromConvert(n) ==
  IF op = "encode_to_slice"
    THEN /\ pc' = "done"
         /\ ret' = n
         /\ UNCHANGED << b64_bytes, pad_off, pad_len >>
    ELSE /\ b64_bytes' = n
         /\ ret' = ret
         /\ IF SliceOk(n, out_len, out_len)
              THEN /\ pc' = "padding"
                   /\ pad_off' = out_off + n
                   /\ pad_len' = out_len - n
              ELSE /\ pc' = "panic"
                   /\ UNCHANGED << pad_off, pad_len >>

\* ---- the partial group of encode_to_slice (lines 95-114) ----
encode_to_slice_tail ==
  /\ pc = "tail"
  /\ LET rem == Len(input) % 3
         syms == IF rem = 2
                   THEN tail2_symbols(input[last_index + 1], input[last_index + 2])
                   ELSE IF rem = 1 THEN tail1_symbols(input[last_index + 1])
                   ELSE << >>
     IN  IF SliceOk(output_index, output_index + Len(syms), out_len) \/ rem = 0
           THEN /\ buf' = Store(buf, out_off + output_index, syms)
                /\ writes' = Count(writes, out_off + output_index, Len(syms))
                /\ output_index' = output_index + Len(syms)
                /\ ReturnFromConvert(output_index + Len(syms))
           ELSE /\ pc' = "panic"
                /\ UNCHANGED << buf, writes, output_index, b64_bytes,
                                pad_off, pad_len, ret >>
  /\ text' = TextAfter(pc')
  /\ UNCHANGED << input, op, buf0, out_off, out_len, encoded_size,
                  input_index, padding_bytes, size_arg >>

\* add_padding's loop (lines 125-127) on a slice of length len at offset off:
\* it writes pad bytes until an index is out of the slice
PadsWritten(n, len) == IF add_padding_len(n) <= len THEN add_padding_len(n) ELSE len

\* ---- add_padding inside encode_with_padding, the last assertion, and the
\*      return of encode or encode_slice (lines 42-45, 17, 31) ----
encode_with_padding_finish ==
  /\ pc = "padding"
  /\ LET k == PadsWritten(Len(input), pad_len)
         newbuf == Store(buf, pad_off, Fill(k, PAD_BYTE))
     IN  /\ buf' = newbuf
         /\ writes' = Count(writes, pad_off, k)
         /\ IF add_padding_len(Len(input)) > pad_len
              THEN /\ pc' = "panic"
                   /\ text' = TextAfter("panic")
                   /\ UNCHANGED << padding_bytes, ret >>
              ELSE /\ padding_bytes' = add_padding_len(Len(input))
                   /\ \E a \in DebugAssert(b64_bytes + add_padding_len(Len(input)) = encoded_size) :
                        IF a = "panic"
                          THEN pc' = "panic" /\ text' = TextAfter("panic") /\ ret' = ret
                          ELSE IF op = "encode"
                            THEN IF ValidUtf8(newbuf)
                                   THEN pc' = "done" /\ text' = newbuf /\ ret' = ret
                                   ELSE pc' = "panic" /\ text' = Panicked /\ ret' = ret
                            ELSE pc' = "done" /\ ret' = encoded_size /\ text' = text
  /\ UNCHANGED << input, op, buf0, out_off, out_len, encoded_size, input_index,
                  output_index, b64_bytes, pad_off, pad_len, size_arg >>

\* ---- pub fn add_padding called by the client (lines 121-130) ----
Call_add_padding(output) ==
  /\ pc = "idle"
  /\ text # NoText
  /\ op' = "add_padding"
  /\ buf0' = output
  /\ pad_off' = 0
  /\ pad_len' = Len(output)
  /\ LET k == PadsWritten(Len(input), Len(output))
     IN  /\ buf' = Store(output, 0, Fill(k, PAD_BYTE))
         /\ writes' = Count(Fill(Len(output), 0), 0, k)
         /\ IF add_padding_len(Len(input)) > Len(output)
              THEN pc' = "panic" /\ ret' = ret
              ELSE pc' = "done" /\ ret' = add_padding_len(Len(input))
  /\ UNCHANGED << input, text, out_off, out_len, encoded_size, input_index,
                  output_index, b64_bytes, padding_bytes, size_arg >>

\* ---- pub fn encode_size called by the client (lines 49-60) ----
Call_encode_size ==
  /\ pc = "idle"
  /\ op' = "encode_size"
  /\ \E r \in encode_size(size_arg) :
       IF r.panic THEN pc' = "panic" /\ ret' = ret
                  ELSE pc' = "done" /\ ret' = r.val
  /\ UNCHANGED << input, text, buf, buf0, writes, out_off, out_len,
                  encoded_size, input_index, output_index, b64_bytes,
                  padding_bytes, pad_off, pad_len, size_arg >>

\* ---- the call has returned or unwound; the client is free to make the next ----
Return ==
  /\ pc \in {"done", "panic"}
  /\ pc' = "idle"
  /\ op' = "none"
  /\ buf' = << >> /\ buf0' = << >> /\ writes' = << >>
  /\ out_off' = 0 /\ out_len' = 0 /\ encoded_size' = 0
  /\ input_index' = 0 /\ output_index' = 0
  /\ b64_bytes' = 0 /\ padding_bytes' = 0
  /\ pad_off' = 0 /\ pad_len' = 0
  /\ ret' = -1
  /\ UNCHANGED << input, text, size_arg >>

Next ==
  \/ Call_encode
  \/ \E output \in CallerBuffers(Len(input)) : Call_encode_slice(output)
  \/ \E output \in CallerBuffers(Len(input)) : Call_encode_to_slice(output)
  \/ \E output \in CallerBuffers(Len(input)) : Call_add_padding(output)
  \/ text # NoText /\ Call_encode_size
  \/ encode_to_slice_loop
  \/ encode_to_slice_loop_exit
  \/ encode_to_slice_tail
  \/ encode_with_padding_finish
  \/ Return

Spec == Init /\ [][Next]_vars

\* ---- encode_size over every usize ----
SizeInit ==
  /\ input = << >>
  /\ size_arg \in 0..USIZE_MAX
  /\ text = NoText
  /\ Idle

SizeNext ==
  \/ Call_encode_size
  \/ Return

SizeSpec == SizeInit /\ [][SizeNext]_vars

(***************************************************************************)
(* What the claims are stated against: the Base64 of the specification,    *)
(* written without the encoder's own operators.                            *)
(***************************************************************************)

\* the alphabet: 0-25 'A'-'Z', 26-51 'a'-'z', 52-61 '0'-'9', 62 '+', 63 '/'
Alphabet(v) ==
  IF v < 26 THEN 65 + v
  ELSE IF v < 52 THEN 97 + (v - 26)
  ELSE IF v < 62 THEN 48 + (v - 52)
  ELSE IF v = 62 THEN 43 ELSE 47

AlphabetChars == {Alphabet(v) : v \in 0..63}
PadChar == 61

\* 4 * ceil(n / 3)
ReqSize(n) == 4 * ((n + 2) \div 3)

\* what the symbol converter writes: 4 * floor(n/3) plus 0, 2 or 3
ConvSize(n) == 4 * (n \div 3) + (IF n % 3 = 0 THEN 0 ELSE IF n % 3 = 1 THEN 2 ELSE 3)

PadCount(n) == IF n % 3 = 0 THEN 0 ELSE IF n % 3 = 1 THEN 2 ELSE 1

RECURSIVE RefEncode(_)
RefEncode(s) ==
  IF Len(s) = 0 THEN << >>
  ELSE IF Len(s) = 1 THEN
    << Alphabet((s[1] \div 4) % 64), Alphabet((s[1] * 16) % 64), PadChar, PadChar >>
  ELSE IF Len(s) = 2 THEN
    << Alphabet((s[1] \div 4) % 64),
       Alphabet((s[1] * 16 + s[2] \div 16) % 64),
       Alphabet((s[2] * 4) % 64), PadChar >>
  ELSE LET V == s[1] * 65536 + s[2] * 256 + s[3]
       IN  << Alphabet((V \div 262144) % 64), Alphabet((V \div 4096) % 64),
              Alphabet((V \div 64) % 64), Alphabet(V % 64) >>
           \o RefEncode(SubSeq(s, 4, Len(s)))

\* A standard decoder: inverse alphabet lookup, 4 characters to 3 bytes, "="
\* marking 1 or 2 missing trailing bytes.  Invalid for anything else,
\* the unused low bits of a last symbol included.
Invalid == << -1 >>
Value(c) == CHOOSE v \in 0..63 : Alphabet(v) = c

RECURSIVE StdDecode(_)
StdDecode(t) ==
  IF Len(t) = 0 THEN << >>
  ELSE IF Len(t) < 4 \/ t[1] \notin AlphabetChars \/ t[2] \notin AlphabetChars THEN Invalid
  ELSE IF t[3] = PadChar THEN
    IF Len(t) = 4 /\ t[4] = PadChar /\ Value(t[2]) % 16 = 0
      THEN << Value(t[1]) * 4 + Value(t[2]) \div 16 >>
      ELSE Invalid
  ELSE IF t[3] \notin AlphabetChars THEN Invalid
  ELSE IF t[4] = PadChar THEN
    IF Len(t) = 4 /\ Value(t[3]) % 4 = 0
      THEN << Value(t[1]) * 4 + Value(t[2]) \div 16,
              (Value(t[2]) % 16) * 16 + Value(t[3]) \div 4 >>
      ELSE Invalid
  ELSE IF t[4] \notin AlphabetChars THEN Invalid
  ELSE LET rest == StdDecode(SubSeq(t, 5, Len(t)))
       IN  IF rest = Invalid THEN Invalid
           ELSE << Value(t[1]) * 4 + Value(t[2]) \div 16,
                   (Value(t[2]) % 16) * 16 + Value(t[3]) \div 4,
                   (Value(t[3]) % 4) * 64 + Value(t[4]) >> \o rest

(***************************************************************************)
(* The claims                                                              *)
(***************************************************************************)

n_in == Len(input)
EncodeReturned == pc = "done" /\ op = "encode"
SliceByCaller == op = "encode_slice"
ConvertByCaller == op = "encode_to_slice"

\* C1: for every input, the empty one included, encode returns the standard
\* Base64 of it: four symbols per complete 3-byte group, most significant six
\* bits first, then the symbols of the 1- or 2-byte remainder and "=" up to a
\* multiple of four; "" -> "", [0] -> "AA==", "Man" -> "TWFu", "Ma" -> "TWE=",
\* "M" -> "TQ=="; and encode does not fail.
C1_EncodeIsReference ==
  /\ op = "encode" => pc # "panic"
  /\ EncodeReturned =>
       /\ text = RefEncode(input)
       /\ input = << >> => text = << >>
       /\ input = << 0 >> => text = << 65, 65, 61, 61 >>
       /\ input = << 77, 97, 110 >> => text = << 84, 87, 70, 117 >>
       /\ input = << 77, 97 >> => text = << 84, 87, 69, 61 >>
       /\ input = << 77 >> => text = << 84, 81, 61, 61 >>

\* "Mana" has been encoded as "TWFuYQ=="
C1_Witness ==
  /\ EncodeReturned
  /\ input = << 77, 97, 110, 97 >>
  /\ text = << 84, 87, 70, 117, 89, 81, 61, 61 >>

\* C2: round trip: a standard decoder, given the text encode returned, gives
\* back the input exactly (so two inputs never share a text).
C2_RoundTrip ==
  op = "encode" /\ pc \in {"done", "panic"} =>
    text # Panicked /\ StdDecode(text) = input

\* a two-byte input with all bits set and none set came back from its text
C2_Witness ==
  /\ EncodeReturned
  /\ input = << 255, 0 >>
  /\ Len(text) = 4
  /\ StdDecode(text) = << 255, 0 >>

\* C3: for the length n of any input, encode_size(n) is 4 * ceil(n/3):
\* 4*(n/3) when n % 3 = 0 and 4*(n/3) + 4 otherwise, a multiple of 4, and 0
\* for 0.  (n ranges over every length a byte slice can have, 0..ISIZE_MAX.)
C3_SizeFormula ==
  op = "encode_size" /\ size_arg <= ISIZE_MAX =>
    /\ pc = "done"
    /\ LET n == size_arg
           k == ret \div 4
       IN  /\ ret % 4 = 0
           /\ 3 * k >= n /\ 3 * (k - 1) < n
           /\ n % 3 = 0 => ret = 4 * (n \div 3)
           /\ n % 3 # 0 => ret = 4 * (n \div 3) + 4
           /\ n = 0 => ret = 0

\* encode_size(7) returned 12
C3_Witness == pc = "done" /\ op = "encode_size" /\ size_arg = 7 /\ ret = 12

\* C4: every byte encode returns, and every one of the first encode_size(n)
\* bytes encode_slice leaves in the buffer, is an alphabet character or "=";
\* "=" is in the last 1 or 2 positions only, 0 of them when n % 3 = 0, 2 when
\* n % 3 = 1 and 1 when n % 3 = 2; no byte is left unwritten.
C4_AlphabetAndPadding ==
  pc = "done" /\ op \in {"encode", "encode_slice"} =>
    LET size == ReqSize(n_in)
        pads == PadCount(n_in)
    IN  /\ Len(buf) >= size
        /\ op = "encode" => Len(text) = size /\ text = buf
        /\ \A i \in 1..size :
             /\ buf[i] \in AlphabetChars \cup {PadChar}
             /\ writes[i] >= 1
             /\ buf[i] = PadChar <=> i > size - pads
        /\ Cardinality({i \in 1..size : buf[i] = PadChar}) = pads

\* encode_slice has left two pad bytes at the end of an 8-byte output
C4_Witness ==
  /\ pc = "done" /\ op = "encode_slice"
  /\ n_in = 4
  /\ buf[7] = 61 /\ buf[8] = 61 /\ buf[6] # 61

\* C5: with a buffer of at least encode_size(len(input)) bytes, exactly that
\* many included, encode_slice succeeds, returns encode_size(len(input)), and
\* leaves in the first that many bytes the bytes of encode(input).
C5_SliceMatchesEncode ==
  SliceByCaller /\ Len(buf0) >= ReqSize(n_in) =>
    /\ pc # "panic"
    /\ pc = "done" =>
         /\ ret = ReqSize(n_in)
         /\ SubSeq(buf, 1, ret) = text

\* encode_slice returned on a buffer of exactly the size needed
C5_Witness ==
  /\ pc = "done" /\ SliceByCaller
  /\ n_in = 4 /\ Len(buf0) = 8 /\ ret = 8
  /\ buf = text

\* C6: with a buffer shorter than encode_size(len(input)), encode_slice
\* panics before anything is written: the buffer is as the caller gave it and
\* no index has been written.
C6_ShortBufferFailsFast ==
  SliceByCaller /\ Len(buf0) < ReqSize(n_in) =>
    /\ pc = "panic"
    /\ buf = buf0
    /\ \A i \in 1..Len(writes) : writes[i] = 0

\* encode_slice has panicked on a buffer one byte short
C6_Witness ==
  /\ pc = "panic" /\ SliceByCaller
  /\ n_in = 4 /\ Len(buf0) = 7

\* C7: with a buffer longer than encode_size(len(input)), encode_slice
\* writes indices 0 .. encode_size(len(input)) - 1 only: every byte past
\* them is what it was before the call, and the input bytes never change.
C7_FrameState ==
  SliceByCaller /\ Len(buf0) > ReqSize(n_in) =>
    /\ Len(buf) = Len(buf0)
    /\ \A i \in 1..Len(buf) :
         i > ReqSize(n_in) => buf[i] = buf0[i] /\ writes[i] = 0
    /\ pc = "done" => \A i \in 1..ReqSize(n_in) : writes[i] = 1

C7_Frame == [] C7_FrameState /\ [][input' = input]_vars

\* encode_slice returned on a buffer one byte longer than needed
C7_Witness ==
  /\ pc = "done" /\ SliceByCaller
  /\ n_in = 4 /\ Len(buf0) = 9
  /\ buf0[9] = 65 /\ buf[9] = 65 /\ buf[8] = 61

\* C8, as claimed: encode_size fails for no usize n: no product or sum
\* passes USIZE_MAX, and the value returned is 4 * ceil(n/3).
C8_NoOverflowAnyUsize ==
  op = "encode_size" => pc = "done" /\ ret = ReqSize(size_arg)

\* C8, amended: encode_size fails for no n up to 3 * (USIZE_MAX / 4), which
\* includes every length a byte slice can have (ISIZE_MAX): nothing passes
\* USIZE_MAX and the value is 4 * ceil(n/3).  For every greater n the
\* arithmetic overflows: a panic, or a wrapped value that is not 4 * ceil(n/3).
SizeLimit == 3 * (USIZE_MAX \div 4)

C8_NoOverflowUpToLimit ==
  /\ ISIZE_MAX <= SizeLimit
  /\ op = "encode_size" =>
       IF size_arg <= SizeLimit
         THEN pc = "done" /\ ret = ReqSize(size_arg) /\ ret <= USIZE_MAX
         ELSE pc = "panic" \/ (pc = "done" /\ ret # ReqSize(size_arg))

\* encode_size returned for the greatest length it can size
C8_Witness ==
  /\ pc = "done" /\ op = "encode_size"
  /\ size_arg = SizeLimit
  /\ ret = USIZE_MAX - 3

C10_ConvertState ==
  ConvertByCaller /\ Len(buf0) >= ConvSize(n_in) =>
    /\ pc # "panic"
    /\ pc = "convert" => input_index <= n_in - (n_in % 3)
    /\ pc = "tail" =>
         /\ input_index = n_in - (n_in % 3)
         /\ output_index = 4 * (n_in \div 3)
    /\ \A i \in 1..Len(buf) :
         i > ConvSize(n_in) => buf[i] = buf0[i] /\ writes[i] = 0
    /\ pc = "done" =>
         /\ ret = ConvSize(n_in)
         /\ \A i \in 1..ConvSize(n_in) : buf[i] \in AlphabetChars /\ writes[i] = 1

\* the steps the call has left at most: the iterations to come, the end of
\* the loop, the partial group
StepsLeft ==
  IF pc = "convert" THEN 2 + (n_in - input_index)
  ELSE IF pc = "tail" THEN 1
  ELSE 0

\* each iteration of the loop moves input_index three bytes on and
\* output_index four, and every step of the call brings its return nearer
C10_LoopAdvances ==
  ConvertByCaller /\ Len(buf0) >= ConvSize(n_in) /\ pc \in {"convert", "tail"} =>
    /\ pc' \in {"convert", "tail", "done"}
    /\ StepsLeft' < StepsLeft
    /\ StepsLeft' >= 0
    /\ pc' = "convert" =>
         input_index' = input_index + 3 /\ output_index' = output_index + 4

C10_Convert == [] C10_ConvertState /\ [][C10_LoopAdvances]_vars

\* encode_to_slice returned 6 on a buffer of 6 bytes: no room for padding
C10_Witness ==
  /\ pc = "done" /\ ConvertByCaller
  /\ n_in = 4 /\ Len(buf0) = 6 /\ ret = 6

=============================================================================
